---- MODULE Spec2Model ----
(***************************************************************************)
(* Expense tracker backend: the request handlers of app/routers/expenses.py *)
(* over the "expenses" table of app/models.py, with the request validation  *)
(* of app/schemas.py and the handle_db_error decorator that wraps every     *)
(* handler.                                                                 *)
(*                                                                          *)
(* Amounts are modelled as integers (the Float column holds them exactly).  *)
(* Dates are integers yyyymmdd, so date comparison is integer comparison    *)
(* and extract('year'/'month') is integer division.                         *)
(* An Optional value is <<>> (None) or <<v>>.                               *)
(***************************************************************************)
EXTENDS Integers, Sequences, FiniteSets, TLC

\* ------------------------------------------------------------------ bounds
\* Largest id the sequence of the table hands out.
MaxId == 2
\* Largest offset and page size a list request is tried with.
MaxSkip == 1
MaxLimit == 1

\* ------------------------------------------------------------- input sets
None == <<>>

Some(x) == <<x>>

\* The SQL NULL of a nullable String column (category is a str in every
\* request, so no stored category is NULL).
SqlNull == "<NULL>"

Mk(t, a, d, c, desc) ==
    [title |-> t, amount |-> a, date |-> d, category |-> c, description |-> desc]

\* Request bodies that pass the ExpenseCreate validation.
ValidPayloads ==
    { Mk("Lunch", 10, 20240115, "Food", None),
      Mk("Dinner", 10, 20240115, "Food", None),
      Mk("Lunch", 5, 20240115, "Food", Some("x")),
      Mk("Taxi", 8, 20240201, "Travel", None),
      Mk("Misc", 5, 20231231, "", None) }

\* Request bodies with an amount the validation refuses.
InvalidPayloads ==
    { Mk("Free", 0, 20240115, "Food", None),
      Mk("Refund", 0 - 3, 20240201, "Travel", None) }

Payloads == ValidPayloads \cup InvalidPayloads

Ids == 1..MaxId

\* The filters a list request is tried with: <<category, start_date, end_date>>.
ListFilters ==
    { <<None, None, None>>,
      <<Some("Food"), None, None>>,
      <<Some(""), None, None>>,
      <<None, Some(20240115), None>>,
      <<Some("Food"), None, Some(20240115)>>,
      <<None, Some(20240201), Some(20240115)>> }

\* Date ranges tried: open, half open, closed, and start later than end.
RangeArgs ==
    { <<None, None>>,
      <<Some(20240115), None>>,
      <<None, Some(20240115)>>,
      <<Some(20240201), Some(20240115)>> }

YearArgs == {None, Some(0), Some(2023), Some(2024)}

\* Where the database connection fails during a request, if it does: at the
\* query of a read, at the commit of a mutation.
WriteFails == {"none", "commit"}

\* The date range requests tried: every range, and one request during which
\* the connection fails.
RangeRequests ==
    { [start |-> r[1], end |-> r[2], fail |-> "none"] : r \in RangeArgs }
    \cup { [start |-> None, end |-> None, fail |-> "query"] }

YearRequests ==
    { [year |-> y, fail |-> "none"] : y \in YearArgs }
    \cup { [year |-> None, fail |-> "query"] }

\* The list requests tried: every filter with every page, and one request
\* during which the connection fails.
ListRequests ==
    { [category |-> f[1], start |-> f[2], end |-> f[3],
       skip |-> s, limit |-> l, fail |-> "none"] :
        f \in ListFilters, s \in 0..MaxSkip, l \in 0..MaxLimit }
    \cup { [category |-> None, start |-> None, end |-> None,
            skip |-> 0, limit |-> MaxLimit, fail |-> "query"] }

\* The requests that run concurrently, each with a Session of its own.
Procs == {1, 2}

Columns == {"title", "amount", "date", "category", "description"}

\* ------------------------------------------------------------------ state
VARIABLES
    store,      \* the expenses table: id -> row (without the id column)
    nextId,     \* the next value of the primary key sequence
    last,       \* the last request served and the response the client got
    sess,       \* concurrent requests: each one's Session and place in its handler
    commitLog   \* the concurrent requests in the order their commits ran

vars == <<store, nextId, last, sess, commitLog>>

\* --------------------------------------------------------------- helpers
Min(a, b) == IF a < b THEN a ELSE b

RECURSIVE SumAmount(_, _)
\* func.sum(Expense.amount) over the rows with ids in S of table t
SumAmount(t, S) ==
    IF S = {} THEN 0
    ELSE LET i == CHOOSE x \in S : TRUE
         IN t[i].amount + SumAmount(t, S \ {i})

RECURSIVE DescSeqs(_, _)
\* Every sequence an ORDER BY key DESC may return for the elements of S:
\* the order of elements with equal keys is left to the database.
DescSeqs(S, key) ==
    IF S = {} THEN {<<>>}
    ELSE UNION { { <<x>> \o s : s \in DescSeqs(S \ {x}, key) } :
                 x \in {y \in S : \A z \in S : key[y] >= key[z]} }

\* Python truthiness of Optional[str] and Optional[int]; a date is always true.
TruthyStr(o) == o # None /\ o[1] # ""

TruthyInt(o) == o # None /\ o[1] # 0

TruthyDate(o) == o # None

\* The ORM object / response model of row i of table t.
Row(t, i) == [id |-> i] @@ t[i]

\* ------------------------------------------------------ handler outcomes
Return(b) == [kind |-> "return", code |-> 200, body |-> b]

RaiseHTTP(c, d) == [kind |-> "HTTPException", code |-> c, body |-> d]

RaiseOperationalError == [kind |-> "OperationalError", code |-> 0, body |-> "db"]

RaiseOther(n) == [kind |-> n, code |-> 0, body |-> n]

Unavailable == "Database connection unavailable. Please try again later."

\* handle_db_error: the response the client gets for a handler's outcome.
\* HTTPException is an Exception, so the second except clause takes every
\* HTTPException the wrapped handler raises itself.
handle_db_error(out) ==
    IF out.kind = "return" THEN [status |-> 200, body |-> out.body]
    ELSE IF out.kind = "OperationalError" THEN [status |-> 503, body |-> Unavailable]
    ELSE [status |-> 500, body |-> "Internal server error"]

\* A validation that lets a zero amount through (ge=0 for gt=0).
ValidExpense_AllowsZero(p) == p.amount >= 0

\* The request validation of ExpenseCreate: amount: float = Field(gt=0).
ValidExpense(p) == p.amount > 0

Unprocessable == [status |-> 422, body |-> "validation error"]

Response(op, args, fail, resp) ==
    [op |-> op, args |-> args, fail |-> fail,
     status |-> resp.status, body |-> resp.body]

\* ------------------------------------------------------------------ Init
Idle == [pc |-> "idle", op |-> "none", id |-> 0, fields |-> <<>>,
         loaded |-> <<>>, status |-> 0, body |-> <<>>]

Init ==
    /\ store = <<>>
    /\ nextId = 1
    /\ last = [op |-> "none", args |-> <<>>, fail |-> "none",
               status |-> 0, body |-> <<>>]
    /\ sess = [p \in Procs |-> Idle]
    /\ commitLog = <<>>

\* ---------------------------------------------------------------- create
\* The outcome of create_expense and the table after it.
create_expense(t, id, p, fail) ==
    IF fail = "commit"
    THEN [out |-> RaiseHTTP(503, Unavailable), table |-> t]
    ELSE LET t2 == t @@ (id :> p)
         IN [out |-> Return(Row(t2, id)), table |-> t2]

CreateExpense(p, fail) ==
    /\ nextId <= MaxId
    /\ IF ~ValidExpense(p)
       THEN /\ last' = Response("create", p, "none", Unprocessable)
            /\ UNCHANGED <<store, nextId, sess, commitLog>>
       ELSE LET r == create_expense(store, nextId, p, fail)
            IN /\ store' = r.table
               /\ nextId' = IF r.out.kind = "return" THEN nextId + 1 ELSE nextId
               /\ last' = Response("create", p, fail, handle_db_error(r.out))
               /\ UNCHANGED <<sess, commitLog>>

\* ------------------------------------------------------------------ get
read_expense(t, id, fail) ==
    IF fail = "query" THEN RaiseOperationalError
    ELSE IF id \notin DOMAIN t THEN RaiseHTTP(404, "Expense not found")
    ELSE Return(Row(t, id))

ReadExpense(id, fail) ==
    /\ last' = Response("get", id, fail, handle_db_error(read_expense(store, id, fail)))
    /\ UNCHANGED <<store, nextId, sess, commitLog>>

\* --------------------------------------------------------------- update
\* An update that leaves the description column out.
Changed_WithoutDescription(loaded, p) ==
    {c \in Columns \ {"description"} : p[c] # loaded[c]}

\* The columns whose value set by setattr differs from the loaded one: the
\* unit of work writes these and no others.
Changed(loaded, p) == {c \in Columns : p[c] # loaded[c]}

\* The UPDATE of the flush: one row must match, or it is a StaleDataError.
flush_update(t, id, loaded, p) ==
    LET ch == Changed(loaded, p)
    IN IF ch = {} THEN [stale |-> FALSE, table |-> t]
       ELSE IF id \notin DOMAIN t THEN [stale |-> TRUE, table |-> t]
       ELSE [stale |-> FALSE,
             table |-> [t EXCEPT ![id] =
                          [c \in Columns |-> IF c \in ch THEN p[c] ELSE @[c]]]]

\* update_expense from the setattr loop on: commit, refresh, return.
update_commit(t, id, loaded, p, fail) ==
    IF fail = "commit" THEN [out |-> RaiseHTTP(503, Unavailable), table |-> t]
    ELSE LET f == flush_update(t, id, loaded, p)
         IN IF f.stale THEN [out |-> RaiseOther("StaleDataError"), table |-> t]
            ELSE IF id \notin DOMAIN f.table
            THEN [out |-> RaiseOther("InvalidRequestError"), table |-> f.table]
            ELSE [out |-> Return(Row(f.table, id)), table |-> f.table]

update_expense(t, id, p, fail) ==
    IF id \notin DOMAIN t
    THEN [out |-> RaiseHTTP(404, "Expense not found"), table |-> t]
    ELSE update_commit(t, id, t[id], p, fail)

UpdateExpense(id, p, fail) ==
    IF ~ValidExpense(p)
    THEN /\ last' = Response("update", [id |-> id, fields |-> p], "none", Unprocessable)
         /\ UNCHANGED <<store, nextId, sess, commitLog>>
    ELSE LET r == update_expense(store, id, p, fail)
         IN /\ store' = r.table
            /\ last' = Response("update", [id |-> id, fields |-> p], fail,
                                handle_db_error(r.out))
            /\ UNCHANGED <<nextId, sess, commitLog>>

\* --------------------------------------------------------------- delete
Deleted == [message |-> "Expense deleted successfully"]

\* delete_expense from db.delete on. A DELETE that matches no row is only
\* warned about by the unit of work.
delete_commit(t, id, fail) ==
    IF fail = "commit" THEN [out |-> RaiseHTTP(503, Unavailable), table |-> t]
    ELSE [out |-> Return(Deleted),
          table |-> [i \in DOMAIN t \ {id} |-> t[i]]]

delete_expense(t, id, fail) ==
    IF id \notin DOMAIN t
    THEN [out |-> RaiseHTTP(404, "Expense not found"), table |-> t]
    ELSE delete_commit(t, id, fail)

DeleteExpense(id, fail) ==
    LET r == delete_expense(store, id, fail)
    IN /\ store' = r.table
       /\ last' = Response("delete", id, fail, handle_db_error(r.out))
       /\ UNCHANGED <<nextId, sess, commitLog>>

\* ------------------------------------------------------------------ list
\* The three optional filters of read_expenses.
ListFilter(t, category, start, end) ==
    { i \in DOMAIN t :
        /\ TruthyStr(category) => t[i].category = category[1]
        /\ TruthyDate(start) => t[i].date >= start[1]
        /\ TruthyDate(end) => t[i].date <= end[1] }

\* OFFSET skip LIMIT limit
Page(s, skip, limit) == SubSeq(s, skip + 1, Min(skip + limit, Len(s)))

Rows(t, s) == [k \in 1..Len(s) |-> Row(t, s[k])]

\* The outcomes of read_expenses: ORDER BY date DESC names no second key.
read_expenses(t, category, start, end, skip, limit, fail) ==
    IF fail = "query" THEN {RaiseOperationalError}
    ELSE { Return(Page(Rows(t, s), skip, limit)) :
             s \in DescSeqs(ListFilter(t, category, start, end),
                            [i \in DOMAIN t |-> t[i].date]) }

ReadExpenses(category, start, end, skip, limit, fail) ==
    /\ \E out \in read_expenses(store, category, start, end, skip, limit, fail) :
         last' = Response("list",
                          [category |-> category, start |-> start, end |-> end,
                           skip |-> skip, limit |-> limit],
                          fail, handle_db_error(out))
    /\ UNCHANGED <<store, nextId, sess, commitLog>>

\* ------------------------------------------------------ summary statistics
\* A date range filter that forgets the end_date bound.
DateFilter_NoEndDate(t, start, end) ==
    { i \in DOMAIN t : TruthyDate(start) => t[i].date >= start[1] }

\* The date range filter of the statistics endpoints.
DateFilter(t, start, end) ==
    { i \in DOMAIN t :
        /\ TruthyDate(start) => t[i].date >= start[1]
        /\ TruthyDate(end) => t[i].date <= end[1] }

MaxAmount(t, S) == CHOOSE a \in {t[i].amount : i \in S} :
                       \A i \in S : t[i].amount <= a

\* A quotient is kept as numerator and denominator.
Quot(n, d) == [num |-> n, den |-> d]

EmptyStatistics ==
    [total_expenses |-> 0, average_expense |-> Quot(0, 1),
     highest_expense |-> 0, most_common_category |-> "None"]

CountOf(t, S, c) == Cardinality({i \in S : t[i].category = c})

\* The rows GROUP BY category ORDER BY count DESC may put first.
MostCommon(t, S) ==
    { c \in {t[i].category : i \in S} :
        \A i \in S : CountOf(t, S, t[i].category) <= CountOf(t, S, c) }

get_expense_statistics(t, start, end, fail) ==
    IF fail = "query" THEN {RaiseOperationalError}
    ELSE LET S == DateFilter(t, start, end)
         IN IF S = {} THEN {Return(EmptyStatistics)}
            ELSE { Return([total_expenses |-> SumAmount(t, S),
                           average_expense |-> Quot(SumAmount(t, S), Cardinality(S)),
                           highest_expense |-> MaxAmount(t, S),
                           most_common_category |-> c]) :
                     c \in MostCommon(t, S) }

GetExpenseStatistics(start, end, fail) ==
    /\ \E out \in get_expense_statistics(store, start, end, fail) :
         last' = Response("stats", [start |-> start, end |-> end], fail,
                          handle_db_error(out))
    /\ UNCHANGED <<store, nextId, sess, commitLog>>

\* -------------------------------------------------------- category totals
\* A category filter that also drops the empty string.
CategoryFilter_NoEmptyString(t, start, end) ==
    { i \in DateFilter(t, start, end) :
        t[i].category # SqlNull /\ t[i].category # "" }

\* isnot(None) and the date range of get_spending_by_category
CategoryFilter(t, start, end) ==
    { i \in DateFilter(t, start, end) : t[i].category # SqlNull }

CategoryTotal(t, S, c) == SumAmount(t, {i \in S : t[i].category = c})

RECURSIVE CategoryEntries(_, _)
\* The response list built from the result rows.
CategoryEntries(s, tot) ==
    IF s = <<>> THEN <<>>
    ELSE <<[category |-> Head(s), total |-> tot[Head(s)]]>>
         \o CategoryEntries(Tail(s), tot)

get_spending_by_category(t, start, end, fail) ==
    IF fail = "query" THEN {RaiseOperationalError}
    ELSE LET S == CategoryFilter(t, start, end)
             cats == {t[i].category : i \in S}
             tot == [c \in cats |-> CategoryTotal(t, S, c)]
         IN { Return(CategoryEntries(s, tot)) : s \in DescSeqs(cats, tot) }

GetSpendingByCategory(start, end, fail) ==
    /\ \E out \in get_spending_by_category(store, start, end, fail) :
         last' = Response("by_category", [start |-> start, end |-> end], fail,
                          handle_db_error(out))
    /\ UNCHANGED <<store, nextId, sess, commitLog>>

\* --------------------------------------------------------- monthly summary
\* extract('year', date)
Year(d) == d \div 10000

\* The (year, month) of a date as the number year*100+month.
YearMonth(d) == d \div 100

MonthlyFilter(t, year) ==
    { i \in DOMAIN t : TruthyInt(year) => Year(t[i].date) = year[1] }

RECURSIVE MonthlyEntries(_, _)
\* The response list built from the result rows.
MonthlyEntries(s, tot) ==
    IF s = <<>> THEN <<>>
    ELSE <<[year |-> Head(s) \div 100, month |-> Head(s) % 100,
            total |-> tot[Head(s)]]>>
         \o MonthlyEntries(Tail(s), tot)

\* GROUP BY and ORDER BY year, month: a group is the number year*100+month.
get_monthly_summary(t, year, fail) ==
    IF fail = "query" THEN {RaiseOperationalError}
    ELSE LET S == MonthlyFilter(t, year)
             groups == {YearMonth(t[i].date) : i \in S}
             tot == [g \in groups |->
                       SumAmount(t, {i \in S : YearMonth(t[i].date) = g})]
         IN { Return(MonthlyEntries(s, tot)) :
                s \in DescSeqs(groups, [g \in groups |-> g]) }

GetMonthlySummary(year, fail) ==
    /\ \E out \in get_monthly_summary(store, year, fail) :
         last' = Response("monthly", year, fail, handle_db_error(out))
    /\ UNCHANGED <<store, nextId, sess, commitLog>>

\* ------------------------------------------------------------------ Next
Next ==
    \/ \E p \in Payloads, f \in WriteFails : CreateExpense(p, f)
    \/ \E id \in Ids, f \in {"none", "query"} : ReadExpense(id, f)
    \/ \E id \in Ids, p \in Payloads, f \in WriteFails : UpdateExpense(id, p, f)
    \/ \E id \in Ids, f \in WriteFails : DeleteExpense(id, f)
    \/ \E q \in ListRequests :
          ReadExpenses(q.category, q.start, q.end, q.skip, q.limit, q.fail)
    \/ \E q \in RangeRequests : GetExpenseStatistics(q.start, q.end, q.fail)
    \/ \E q \in RangeRequests : GetSpendingByCategory(q.start, q.end, q.fail)
    \/ \E q \in YearRequests : GetMonthlySummary(q.year, q.fail)

Spec == Init /\ [][Next]_vars

\* ------------------------------------------------- concurrent mutations
\* Two requests, each in its own Session (get_db), mutate the table at the
\* same time. A handler is two steps: the query that loads the row, and the
\* rest of it (setattr or db.delete, commit, refresh), which acts on the row
\* as the Session loaded it.
Finish(s, resp) == [s EXCEPT !.pc = "done", !.status = resp.status, !.body = resp.body]

\* update_expense up to the existence check
BeginUpdate(p, id, fields) ==
    /\ sess[p].pc = "idle"
    /\ LET s == [sess[p] EXCEPT !.op = "update", !.id = id, !.fields = fields]
       IN sess' = [sess EXCEPT ![p] =
            IF ~ValidExpense(fields) THEN Finish(s, Unprocessable)
            ELSE IF id \notin DOMAIN store
            THEN Finish(s, handle_db_error(RaiseHTTP(404, "Expense not found")))
            ELSE [s EXCEPT !.pc = "loaded", !.loaded = store[id]]]
    /\ UNCHANGED <<store, nextId, last, commitLog>>

\* update_expense from the setattr loop on
CommitUpdate(p, fail) ==
    /\ sess[p].pc = "loaded"
    /\ sess[p].op = "update"
    /\ LET r == update_commit(store, sess[p].id, sess[p].loaded, sess[p].fields, fail)
       IN /\ store' = r.table
          /\ sess' = [sess EXCEPT ![p] = Finish(@, handle_db_error(r.out))]
    /\ commitLog' = IF fail = "none" THEN Append(commitLog, p) ELSE commitLog
    /\ UNCHANGED <<nextId, last>>

\* delete_expense up to the existence check
BeginDelete(p, id) ==
    /\ sess[p].pc = "idle"
    /\ LET s == [sess[p] EXCEPT !.op = "delete", !.id = id]
       IN sess' = [sess EXCEPT ![p] =
            IF id \notin DOMAIN store
            THEN Finish(s, handle_db_error(RaiseHTTP(404, "Expense not found")))
            ELSE [s EXCEPT !.pc = "loaded", !.loaded = store[id]]]
    /\ UNCHANGED <<store, nextId, last, commitLog>>

\* delete_expense from db.delete on
CommitDelete(p, fail) ==
    /\ sess[p].pc = "loaded"
    /\ sess[p].op = "delete"
    /\ LET r == delete_commit(store, sess[p].id, fail)
       IN /\ store' = r.table
          /\ sess' = [sess EXCEPT ![p] = Finish(@, handle_db_error(r.out))]
    /\ commitLog' = IF fail = "none" THEN Append(commitLog, p) ELSE commitLog
    /\ UNCHANGED <<nextId, last>>

\* The table holds one record, created by a first request.
InitConc ==
    /\ \E p \in ValidPayloads :
         LET r == create_expense(<<>>, 1, p, "none")
         IN /\ store = r.table
            /\ last = Response("create", p, "none", handle_db_error(r.out))
    /\ nextId = 2
    /\ sess = [p \in Procs |-> Idle]
    /\ commitLog = <<>>

NextConc ==
    \/ \E p \in Procs, id \in Ids, x \in Payloads : BeginUpdate(p, id, x)
    \/ \E p \in Procs, f \in WriteFails : CommitUpdate(p, f)
    \/ \E p \in Procs, id \in Ids : BeginDelete(p, id)
    \/ \E p \in Procs, f \in WriteFails : CommitDelete(p, f)

SpecConc == InitConc /\ [][NextConc]_vars

\* ================================================================ claims
\* The rows of the table whose date lies in the inclusive range; an absent
\* bound does not constrain.
InRange(start, end) ==
    { i \in DOMAIN store :
        /\ start = None \/ store[i].date >= start[1]
        /\ end = None \/ store[i].date <= end[1] }

RECURSIVE Total(_)
Total(S) ==
    IF S = {} THEN 0
    ELSE LET i == CHOOSE x \in S : TRUE IN store[i].amount + Total(S \ {i})

\* The id a get, update or delete response is about.
RequestId(l) == IF l.op = "update" THEN l.args.id ELSE l.args

\* ------------------------------------------------------------------- C1
\* C1: a get, update or delete of an id that is not in the store, with the
\* database reachable and the fields valid, is answered 404 (NotFound) and
\* leaves the store as it was.
C1_MissingIdIsNotFound ==
    [][ ( /\ last'.op \in {"get", "update", "delete"}
          /\ last'.fail = "none"
          /\ last'.status # 422
          /\ RequestId(last') \notin DOMAIN store )
        => ( last'.status = 404 /\ store' = store ) ]_vars

\* ------------------------------------------------------------------- C2
\* C2: a create, update or delete whose commit fails with OperationalError
\* is answered 503 (Unavailable) and leaves the store as it was.
C2_CommitFailureIsUnavailable ==
    [][ ( /\ last'.op \in {"create", "update", "delete"}
          /\ last'.fail = "commit"
          /\ last'.op = "create" \/ RequestId(last') \in DOMAIN store )
        => ( last'.status = 503 /\ store' = store ) ]_vars

\* ------------------------------------------------------------------- C3
\* C3: after a successful update(id, X) of a stored record, get(id) returns
\* X with the id unchanged, every other record is as before and so is the
\* set of ids.
C3_UpdateThenGet ==
    [][ ( last'.op = "update" /\ last'.status = 200 )
        => LET id == last'.args.id
               X == last'.args.fields
           IN /\ id \in DOMAIN store
              /\ handle_db_error(read_expense(store', id, "none"))
                   = [status |-> 200,
                      body |-> [id |-> id, title |-> X.title, amount |-> X.amount,
                                date |-> X.date, category |-> X.category,
                                description |-> X.description]]
              /\ DOMAIN store' = DOMAIN store
              /\ \A j \in DOMAIN store \ {id} : store'[j] = store[j] ]_vars

\* An update has succeeded that replaced every field but the date, next
\* to another record.
C3_Witness ==
    /\ last.op = "update"
    /\ last.status = 200
    /\ last.args.fields = Mk("Lunch", 5, 20240115, "Food", Some("x"))
    /\ Cardinality(DOMAIN store) = 2
    /\ store[last.args.id] = last.args.fields
    /\ \E j \in DOMAIN store : store[j] # last.args.fields

\* ------------------------------------------------------------------- C4
\* C4: after every request every stored record has amount > 0, and a create
\* or update with amount <= 0 is answered 422 (InvalidInput) and changes
\* nothing.
C4_AmountAlwaysPositive ==
    [][ /\ \A i \in DOMAIN store' : store'[i].amount > 0
        /\ ( /\ last'.op \in {"create", "update"}
             /\ (IF last'.op = "create" THEN last'.args
                                         ELSE last'.args.fields).amount <= 0 )
           => ( last'.status = 422 /\ store' = store /\ nextId' = nextId ) ]_vars

\* An update with a negative amount was refused while records are stored.
C4_Witness ==
    /\ last.op = "update"
    /\ last.args.fields.amount < 0
    /\ last.args.id \in DOMAIN store
    /\ last.status = 422
    /\ \A i \in DOMAIN store : store[i].amount > 0

\* ------------------------------------------------------------------- C5
\* C5: when no stored record lies in the date range of a summary statistics
\* request, the answer is 200 with total 0, average 0, highest 0 and
\* most_common_category "None".
C5_EmptyStatistics ==
    ( /\ last.op = "stats"
      /\ last.fail = "none"
      /\ InRange(last.args.start, last.args.end) = {} )
    => /\ last.status = 200
       /\ last.body.total_expenses = 0
       /\ last.body.average_expense.num = 0
       /\ last.body.highest_expense = 0
       /\ last.body.most_common_category = "None"

\* Statistics were asked with start_date later than end_date of a store
\* holding a record dated on or after start_date.
C5_Witness ==
    /\ last.op = "stats"
    /\ last.status = 200
    /\ last.args.start # None
    /\ last.args.end # None
    /\ last.args.start[1] > last.args.end[1]
    /\ \E i \in DOMAIN store : store[i].date >= last.args.start[1]
    /\ last.body.most_common_category = "None"

\* ------------------------------------------------------------------- C6
\* The body is one entry per category of cats, each with the total of the
\* records of S of that category, in descending order of total.
IsCategoryReport(body, S, cats) ==
    /\ Len(body) = Cardinality(cats)
    /\ {body[k].category : k \in 1..Len(body)} = cats
    /\ \A k \in 1..Len(body) :
         body[k].total = Total({i \in S : store[i].category = body[k].category})
    /\ \A k \in 1..Len(body) - 1 : body[k].total >= body[k + 1].total

\* C6 as claimed: category totals has one entry per distinct non-empty
\* category of the records in range, with the sum of their amounts, sorted
\* by total descending; records with category "" contribute no entry.
C6_NoEntryForEmptyCategory ==
    ( last.op = "by_category" /\ last.fail = "none" )
    => /\ last.status = 200
       /\ LET S == InRange(last.args.start, last.args.end)
          IN IsCategoryReport(last.body, S, {store[i].category : i \in S} \ {""})

\* C6 as amended: category totals has one entry per distinct category of
\* the records in range, the empty string among them, with the sum of their
\* amounts, sorted by total descending.
C6_OneEntryPerCategory ==
    ( last.op = "by_category" /\ last.fail = "none" )
    => /\ last.status = 200
       /\ LET S == InRange(last.args.start, last.args.end)
          IN IsCategoryReport(last.body, S, {store[i].category : i \in S})

\* Category totals returned two entries, one of them for the category "".
C6_Witness ==
    /\ last.op = "by_category"
    /\ last.status = 200
    /\ Len(last.body) = 2
    /\ \E k \in 1..2 : last.body[k].category = "" /\ last.body[k].total > 0

\* ------------------------------------------------------------------- C7
\* The records that match a list filter, by date descending and, for equal
\* dates, by id descending.
ByDateThenIdDesc(M) ==
    CHOOSE s \in DescSeqs(M, [i \in M |-> store[i].date * (MaxId + 1) + i]) : TRUE

\* C7: list returns the elements skip+1 .. skip+limit of the matching
\* records ordered by date descending, equal dates by id descending. (Stated
\* for the requests whose category filter is absent or not the empty string.)
C7_ListPage ==
    ( /\ last.op = "list"
      /\ last.fail = "none"
      /\ last.args.category # Some("") )
    => /\ last.status = 200
       /\ LET M == { i \in InRange(last.args.start, last.args.end) :
                       \/ last.args.category = None
                       \/ store[i].category = last.args.category[1] }
              s == ByDateThenIdDesc(M)
          IN last.body =
               SubSeq([k \in 1..Len(s) |-> [id |-> s[k]] @@ store[s[k]]],
                      last.args.skip + 1,
                      Min(last.args.skip + last.args.limit, Len(s)))

\* ------------------------------------------------------------------- C8
\* C8: the most_common_category of a non-empty filtered set has the greatest
\* record count, and a second call with the same filter on the same records
\* returns the same category.
C8_MostCommonDeterministic ==
    [][ ( /\ last.op = "stats" /\ last.status = 200
          /\ last'.op = "stats" /\ last'.status = 200
          /\ last'.args = last.args
          /\ store' = store
          /\ InRange(last.args.start, last.args.end) # {} )
        => LET S == InRange(last.args.start, last.args.end)
               n(c) == Cardinality({i \in S : store[i].category = c})
           IN /\ \A i \in S : n(store[i].category) <= n(last'.body.most_common_category)
              /\ last'.body.most_common_category = last.body.most_common_category ]_vars

\* ------------------------------------------------------------------- C9
\* C9: monthly summary has one entry per (year, month) of the record dates
\* with the sum of that month's amounts, sorted by (year, month) descending;
\* with a year supplied only the records of that year count.
C9_MonthlySummary ==
    ( last.op = "monthly" /\ last.fail = "none" )
    => /\ last.status = 200
       /\ LET S == { i \in DOMAIN store :
                       last.args = None \/ store[i].date \div 10000 = last.args[1] }
              ym(i) == store[i].date \div 100
              b == last.body
          IN /\ Len(b) = Cardinality({ym(i) : i \in S})
             /\ {b[k].year * 100 + b[k].month : k \in 1..Len(b)} = {ym(i) : i \in S}
             /\ \A k \in 1..Len(b) :
                  b[k].total = Total({i \in S : ym(i) = b[k].year * 100 + b[k].month})
             /\ \A k \in 1..Len(b) - 1 :
                  b[k].year * 100 + b[k].month > b[k + 1].year * 100 + b[k + 1].month

\* ------------------------------------------------------------------ C10
\* C10: when two concurrent mutations of one existing id, at least one of
\* them an update, have both committed, the one that committed last was
\* answered 200 and the table is as it left it: the record is gone after a
\* delete, and holds every field of the update after an update.
C10_LastCommitWins ==
    ( /\ \A p \in Procs : sess[p].pc = "done"
      /\ Len(commitLog) = 2
      /\ \A p, q \in Procs : sess[p].id = sess[q].id
      /\ \E p \in Procs : sess[p].op = "update" )
    => LET w == sess[commitLog[2]]
       IN /\ w.status = 200
          /\ w.op = "delete" => w.id \notin DOMAIN store
          /\ w.op = "update" => w.id \in DOMAIN store /\ store[w.id] = w.fields
====
